---- MODULE Spec2Model ----
(***************************************************************************)
(* Order-key maintenance of the grouped, draggable table.                  *)
(*                                                                         *)
(* The repository holds three table components over the same row shape:    *)
(*   "frac"   src/unnamed/part_000       fractional (midpoint) sort keys   *)
(*   "renum"  src/src/GroupDragTable.tsx flatten and renumber 0,1,2,...    *)
(*   "groups" src/unnamed/part_001       group-only arrayMove + renumber   *)
(* One behaviour of the model is the life of one mounted component: the    *)
(* variable variant says which one, and never changes.                     *)
(*                                                                         *)
(* A row is a record [key, groupKey, groupSize, sort].  The payload fields *)
(* category, name and count are copied by every handler and read by none;  *)
(* they are a function of key and are left out.  A sort value is a JS      *)
(* number; it is modelled in exact arithmetic as a reduced fraction        *)
(* <<numerator, denominator>> with a positive denominator.                 *)
(***************************************************************************)
EXTENDS Integers, Sequences, FiniteSets, TLC

VARIABLES variant, dataSource, groups, activeId, indicatorPos, moves

vars == <<variant, dataSource, groups, activeId, indicatorPos, moves>>

\* Number of completed drag gestures explored from the seed collection.
MaxMoves == 2

\* Pointer moves are followed during the first MaxTracked gestures.  The drop
\* indicator they write is read by no handler and cleared by every drag end.
MaxTracked == 1

-----------------------------------------------------------------------------
(* JS numbers, in exact arithmetic *)

Abs(x) == IF x < 0 THEN -x ELSE x

RECURSIVE GCD(_, _)
GCD(a, b) == IF b = 0 THEN a ELSE GCD(b, a % b)

\* n / d for integers n and d > 0, reduced
Rat(n, d) ==
  LET g == GCD(Abs(n), d)
  IN  <<n \div g, d \div g>>

Num(k) == <<k, 1>>

RatAdd(a, b) == Rat(a[1] * b[2] + b[1] * a[2], a[2] * b[2])

RatSub(a, b) == Rat(a[1] * b[2] - b[1] * a[2], a[2] * b[2])

\* a * k and a / k for an integer k (k > 0 for the quotient)
RatMulInt(a, k) == Rat(a[1] * k, a[2])

RatDivInt(a, k) == Rat(a[1], a[2] * k)

RatLt(a, b) == a[1] * b[2] < b[1] * a[2]

RatLe(a, b) == a[1] * b[2] <= b[1] * a[2]

\* the value null of `number | null`
Null == << >>

\* the value undefined of the optional field groupSize
Undefined == -1

-----------------------------------------------------------------------------
(* Identifiers.  A dnd-kit id is the string "row:KEY", "group:GROUPKEY" or, *)
(* in part_001, the bare group key.  startsWith(prefix) is the test on     *)
(* kind; slice(prefix.length) is the field name.                           *)

RowId(k) == [kind |-> "row", name |-> k]

GroupId(gk) == [kind |-> "group", name |-> gk]

PlainId(s) == [kind |-> "plain", name |-> s]

\* the value null of activeId, and of e.over when nothing is under the pointer
NoId == [kind |-> "null", name |-> ""]

startsWith(id, prefix) == id.kind = prefix

RowKeys == {"1-1", "1-2", "1-3", "2-1", "2-2", "3-1"}

GroupKeys == {"group-A", "group-B", "group-C"}

\* a row key and a group key that no row carries (a stale id)
StaleRowKey == "9-9"

StaleGroupKey == "group-Z"

PrefixedIds ==
  {RowId(k) : k \in RowKeys \cup {StaleRowKey}}
    \cup {GroupId(g) : g \in GroupKeys \cup {StaleGroupKey}}

PlainIds == {PlainId(g) : g \in GroupKeys \cup {StaleGroupKey}}

\* the ids the sortable context of each component can report
Ids(v) == IF v = "groups" THEN PlainIds ELSE PrefixedIds

-----------------------------------------------------------------------------
(* Seed collections *)

Row(k, gk, gs, s) == [key |-> k, groupKey |-> gk, groupSize |-> gs, sort |-> Num(s)]

\* part_000: sort starts at 1
initialData ==
  << Row("1-1", "group-A", 3, 1),
     Row("1-2", "group-A", Undefined, 2),
     Row("1-3", "group-A", Undefined, 3),
     Row("2-1", "group-B", 2, 4),
     Row("2-2", "group-B", Undefined, 5),
     Row("3-1", "group-C", 1, 6) >>

\* GroupDragTable.tsx and part_001: sort starts at 0
initialDataZero ==
  [i \in 1..Len(initialData) |->
     [initialData[i] EXCEPT !.sort = Num(i - 1)]]

-----------------------------------------------------------------------------
(* Array helpers *)

\* arr.sort((a, b) => a.sort - b.sort): a stable sort by ascending sort
RECURSIVE InsertBySort(_, _)
InsertBySort(r, s) ==
  IF s = << >> THEN <<r>>
  ELSE IF RatLt(r.sort, s[Len(s)].sort)
       THEN Append(InsertBySort(r, SubSeq(s, 1, Len(s) - 1)), s[Len(s)])
       ELSE Append(s, r)

RECURSIVE SortBySort(_)
SortBySort(s) ==
  IF s = << >> THEN << >>
  ELSE InsertBySort(s[Len(s)], SortBySort(SubSeq(s, 1, Len(s) - 1)))

\* the sortedData memo of every component
sortedData(data) == SortBySort(data)

\* data.filter((r) => r.groupKey === gk)
RowsOfGroup(data, gk) == SelectSeq(data, LAMBDA r : r.groupKey = gk)

\* the key order of new Map() filled by data.forEach: first occurrence
RECURSIVE MapKeyOrder(_)
MapKeyOrder(data) ==
  IF data = << >> THEN << >>
  ELSE LET front == MapKeyOrder(SubSeq(data, 1, Len(data) - 1))
           gk == data[Len(data)].groupKey
       IN  IF \E i \in 1..Len(front) : front[i] = gk THEN front
           ELSE Append(front, gk)

\* groups.flatMap((g) => g.rows)
RECURSIVE Flatten(_)
Flatten(gs) ==
  IF gs = << >> THEN << >>
  ELSE gs[1].rows \o Flatten(SubSeq(gs, 2, Len(gs)))

\* findIndex: the first index whose flag holds, 0 for findIndex's -1
FirstIndex(flags) ==
  LET hits == {i \in DOMAIN flags : flags[i]}
  IN  IF hits = {} THEN 0 ELSE CHOOSE i \in hits : \A j \in hits : i <= j

\* arr.findIndex((r) => r.key === k)
IndexOfKey(rows, k) == FirstIndex([i \in 1..Len(rows) |-> rows[i].key = k])

\* gs.findIndex((g) => g.groupKey === gk)
IndexOfGroup(gs, gk) == FirstIndex([i \in 1..Len(gs) |-> gs[i].groupKey = gk])

\* the first group of gs whose rows hold the key k
IndexOfHolder(gs, k) ==
  FirstIndex([i \in 1..Len(gs) |-> \E j \in 1..Len(gs[i].rows) : gs[i].rows[j].key = k])

-----------------------------------------------------------------------------
(* part_000: helpers *)

\* buildGroups without the sort of each group's rows
buildGroupsUnsorted(data) ==
  LET order == MapKeyOrder(data)
  IN  [i \in 1..Len(order) |->
         [groupKey |-> order[i], rows |-> RowsOfGroup(data, order[i])]]

\* buildGroups of part_000: Map order, each group's rows sorted by sort
buildGroups(data) ==
  LET order == MapKeyOrder(data)
  IN  [i \in 1..Len(order) |->
         [groupKey |-> order[i], rows |-> SortBySort(RowsOfGroup(data, order[i]))]]

\* findPrevSort reading the wrong end of the sorted array
findPrevSortFirst(data, s) ==
  LET arr == SortBySort(SelectSeq(data, LAMBDA i : RatLt(i.sort, s)))
  IN  IF Len(arr) = 0 THEN Null ELSE arr[1].sort

\* findPrevSort with the filter i.sort <= sort
findPrevSortNonStrict(data, s) ==
  LET arr == SortBySort(SelectSeq(data, LAMBDA i : RatLe(i.sort, s)))
  IN  IF Len(arr) = 0 THEN Null ELSE arr[Len(arr)].sort

\* largest sort strictly below s, or null
findPrevSort(data, s) ==
  LET arr == SortBySort(SelectSeq(data, LAMBDA i : RatLt(i.sort, s)))
  IN  IF Len(arr) = 0 THEN Null ELSE arr[Len(arr)].sort

\* findNextSort with the filter i.sort >= sort
findNextSortNonStrict(data, s) ==
  LET arr == SortBySort(SelectSeq(data, LAMBDA i : RatLe(s, i.sort)))
  IN  IF Len(arr) = 0 THEN Null ELSE arr[1].sort

\* findNextSort reading the wrong end of the sorted array
findNextSortLast(data, s) ==
  LET arr == SortBySort(SelectSeq(data, LAMBDA i : RatLt(s, i.sort)))
  IN  IF Len(arr) = 0 THEN Null ELSE arr[Len(arr)].sort

\* smallest sort strictly above s, or null
findNextSort(data, s) ==
  LET arr == SortBySort(SelectSeq(data, LAMBDA i : RatLt(s, i.sort)))
  IN  IF Len(arr) = 0 THEN Null ELSE arr[1].sort

\* updateRowSort matching on the group of the row, not on its key
updateRowSortGroup(data, rowKey, newSort) ==
  LET at == IndexOfKey(data, rowKey)
  IN  [i \in 1..Len(data) |->
         IF at # 0 /\ data[i].groupKey = data[at].groupKey
         THEN [data[i] EXCEPT !.sort = newSort] ELSE data[i]]

\* data.map: the row whose key is rowKey gets newSort, nothing else changes
updateRowSort(data, rowKey, newSort) ==
  [i \in 1..Len(data) |->
     IF data[i].key = rowKey THEN [data[i] EXCEPT !.sort = newSort] ELSE data[i]]

\* updateGroupSort with idx starting at 0
updateGroupSortZeroBased(data, groupKey, up, JQ) ==
  [i \in 1..Len(data) |->
     IF data[i].groupKey = groupKey
     THEN LET idx == Cardinality({j \in 1..(i - 1) : data[j].groupKey = groupKey})
          IN  [data[i] EXCEPT !.sort = RatAdd(up, RatMulInt(JQ, idx))]
     ELSE data[i]]

\* updateGroupSort counting idx down from the group's length
updateGroupSortReversed(data, groupKey, up, JQ) ==
  [i \in 1..Len(data) |->
     IF data[i].groupKey = groupKey
     THEN LET idx == 1 + Cardinality({j \in (i + 1)..Len(data) : data[j].groupKey = groupKey})
          IN  [data[i] EXCEPT !.sort = RatAdd(up, RatMulInt(JQ, idx))]
     ELSE data[i]]

\* the value of idx++ at position i of data.map: 1 + matching rows before i
updateGroupSort(data, groupKey, up, JQ) ==
  [i \in 1..Len(data) |->
     IF data[i].groupKey = groupKey
     THEN LET idx == 1 + Cardinality({j \in 1..(i - 1) : data[j].groupKey = groupKey})
          IN  [data[i] EXCEPT !.sort = RatAdd(up, RatMulInt(JQ, idx))]
     ELSE data[i]]

-----------------------------------------------------------------------------
(* part_000: computeNewSorts *)

\* getSortForId answering 0, not null, for a row key that is not found
getSortForIdZero(sd, id, isTargetingEnd) ==
  IF startsWith(id, "row") THEN
    LET i == IndexOfKey(sd, id.name)
    IN  IF i = 0 THEN Num(0) ELSE sd[i].sort
  ELSE IF startsWith(id, "group") THEN
    LET rows == SortBySort(RowsOfGroup(sd, id.name))
    IN  IF Len(rows) = 0 THEN Null
        ELSE IF isTargetingEnd THEN rows[Len(rows)].sort ELSE rows[1].sort
  ELSE Null

\* getSortForId answering the first sort of a group whatever isTargetingEnd is
getSortForIdFirst(sd, id, isTargetingEnd) ==
  IF startsWith(id, "row") THEN
    LET i == IndexOfKey(sd, id.name)
    IN  IF i = 0 THEN Null ELSE sd[i].sort
  ELSE IF startsWith(id, "group") THEN
    LET rows == SortBySort(RowsOfGroup(sd, id.name))
    IN  IF Len(rows) = 0 THEN Null ELSE rows[1].sort
  ELSE Null

\* s of a row id, first (or last, when isTargetingEnd) sort of a group id
getSortForId(sd, id, isTargetingEnd) ==
  IF startsWith(id, "row") THEN
    LET i == IndexOfKey(sd, id.name)
    IN  IF i = 0 THEN Null ELSE sd[i].sort
  ELSE IF startsWith(id, "group") THEN
    LET rows == SortBySort(RowsOfGroup(sd, id.name))
    IN  IF Len(rows) = 0 THEN Null
        ELSE IF isTargetingEnd THEN rows[Len(rows)].sort ELSE rows[1].sort
  ELSE Null

\* x ?? d
OrElse(x, d) == IF x = Null THEN d ELSE x

computeNewSorts(sd, activeIdStr, overIdStr) ==
  LET activeIsGroup == startsWith(activeIdStr, "group")
      activeIsRow == startsWith(activeIdStr, "row")
      activeSort == getSortForId(sd, activeIdStr, FALSE)
      overSortBase == getSortForId(sd, overIdStr, FALSE)
  IN
  IF activeSort = Null \/ overSortBase = Null THEN sd
  ELSE
    LET isUp == RatLt(overSortBase, activeSort)
        isDown == RatLt(activeSort, overSortBase)
        overSort == getSortForId(sd, overIdStr, isDown)
    IN
    IF activeIsRow /\ ~activeIsGroup THEN
      IF isUp THEN
        LET down == overSort
            up == OrElse(findPrevSort(sd, down), Num(0))
            newSort == RatAdd(RatDivInt(RatSub(down, up), 2), up)
        IN  updateRowSort(sd, activeIdStr.name, newSort)
      ELSE IF isDown THEN
        LET up == overSort
            maybeNext == findNextSort(sd, up)
            down == OrElse(maybeNext, RatAdd(up, Num(2)))
            newSort == RatAdd(up, RatDivInt(RatSub(down, up), 2))
        IN  updateRowSort(sd, activeIdStr.name, newSort)
      ELSE sd
    ELSE IF activeIsGroup THEN
      LET gk == activeIdStr.name
          rowNum == Len(RowsOfGroup(sd, gk))
      IN
      IF isUp THEN
        LET down == overSort
            up == OrElse(findPrevSort(sd, down), Num(0))
            JQ == RatDivInt(RatSub(down, up), rowNum + 1)
        IN  updateGroupSort(sd, gk, up, JQ)
      ELSE IF isDown THEN
        LET up == overSort
            maybeNext == findNextSort(sd, up)
            down == OrElse(maybeNext, RatAdd(up, Num(rowNum + 1)))
            JQ == RatDivInt(RatSub(down, up), rowNum + 1)
        IN  updateGroupSort(sd, gk, up, JQ)
      ELSE sd
    ELSE sd

\* groupSize of the first row of each group is the group's length, else 0
recomputeGroupSizes(data) ==
  LET gs == buildGroups(data)
      sized == [g \in 1..Len(gs) |->
                  [groupKey |-> gs[g].groupKey,
                   rows |-> [idx \in 1..Len(gs[g].rows) |->
                               [gs[g].rows[idx] EXCEPT
                                  !.groupSize = IF idx = 1 THEN Len(gs[g].rows) ELSE 0]]]]
  IN  Flatten(sized)

\* onDragEnd of part_000 without the test activeIdStr === overIdStr
onDragEndFracNoSameTest(data, active, over) ==
  IF active = NoId \/ over = NoId THEN data
  ELSE recomputeGroupSizes(computeNewSorts(sortedData(data), active, over))

\* part_000 onDragEnd: the collection handed to setDataSource, or the
\* current one when the handler returns before it
onDragEndFrac(data, active, over) ==
  IF active = NoId \/ over = NoId THEN data
  ELSE IF active = over THEN data
  ELSE recomputeGroupSizes(computeNewSorts(sortedData(data), active, over))

-----------------------------------------------------------------------------
(* @dnd-kit/sortable arrayMove: take the element at from, put it at to *)

RemoveAt(s, i) == SubSeq(s, 1, i - 1) \o SubSeq(s, i + 1, Len(s))

\* splice(i, 0, x) off by one: x goes behind the element at i
InsertAtAfter(s, i, x) == SubSeq(s, 1, i) \o <<x>> \o SubSeq(s, i + 1, Len(s))

InsertAt(s, i, x) == SubSeq(s, 1, i - 1) \o <<x>> \o SubSeq(s, i, Len(s))

\* arrayMove that leaves the element at from in place as well
arrayMoveCopy(arr, from, to) == InsertAt(arr, to, arr[from])

\* arrayMove exchanging the elements at from and to
arrayMoveSwap(arr, from, to) ==
  [i \in 1..Len(arr) |->
     IF i = from THEN arr[to] ELSE IF i = to THEN arr[from] ELSE arr[i]]

arrayMove(arr, from, to) == InsertAt(RemoveAt(arr, from), to, arr[from])

-----------------------------------------------------------------------------
(* GroupDragTable.tsx *)

\* buildGroups of GroupDragTable.tsx: Map order, rows in the order of data
buildGroupsRenum(data) ==
  LET order == MapKeyOrder(data)
  IN  [i \in 1..Len(order) |->
         [groupKey |-> order[i], rows |-> RowsOfGroup(data, order[i])]]

\* flattenAndResort without the rewrite of sort
flattenAndResortKeep(gs) == Flatten(gs)

\* sort is rewritten to the position in the flattened order, from 0
flattenAndResort(gs) ==
  LET flat == Flatten(gs)
  IN  [i \in 1..Len(flat) |-> [flat[i] EXCEPT !.sort = Num(i - 1)]]

\* The groups memo holds references to the row objects of dataSource.  The
\* model keeps the memo as lists of row keys and reads each row through
\* dataSource, so that a write to a row object shows in the memo too.
MemoOf(gs) ==
  [i \in 1..Len(gs) |->
     [groupKey |-> gs[i].groupKey,
      rows |-> [j \in 1..Len(gs[i].rows) |-> gs[i].rows[j].key]]]

RowByKey(data, k) == data[IndexOfKey(data, k)]

GroupsOf(data, memo) ==
  [i \in 1..Len(memo) |->
     [groupKey |-> memo[i].groupKey,
      rows |-> [j \in 1..Len(memo[i].rows) |-> RowByKey(data, memo[i].rows[j])]]]

\* moving.groupKey = gk, a write to the row object held by dataSource
SetGroupKey(data, rowKey, gk) ==
  [i \in 1..Len(data) |->
     IF data[i].key = rowKey THEN [data[i] EXCEPT !.groupKey = gk] ELSE data[i]]

\* The outcome of onDragEnd of GroupDragTable.tsx on the rendered groups gs:
\*   set   TRUE when setDataSource(data) is called with a new array,
\*   data  that array; or, when set is FALSE, the current dataSource after
\*         the handler's writes to its row objects.
onDragEndRenum(data, gs, active, over) ==
  LET same == [set |-> FALSE, data |-> data]
  IN
  IF over = NoId THEN same
  ELSE IF active = over THEN same
  ELSE IF startsWith(active, "group") /\ startsWith(over, "group") THEN
    LET from == IndexOfGroup(gs, active.name)
        to == IndexOfGroup(gs, over.name)
    IN  IF from = 0 \/ to = 0 \/ from = to THEN same
        ELSE [set |-> TRUE, data |-> flattenAndResort(arrayMove(gs, from, to))]
  ELSE IF startsWith(active, "row") THEN
    LET rowKey == active.name
        src == IndexOfHolder(gs, rowKey)
    IN
    IF ~(startsWith(over, "group") \/ startsWith(over, "row")) THEN same
    ELSE IF src = 0 THEN same
    ELSE
      LET at == IndexOfKey(gs[src].rows, rowKey)
          moving == gs[src].rows[at]
          oldGroups == [gs EXCEPT ![src].rows = RemoveAt(gs[src].rows, at)]
      IN
      IF startsWith(over, "group") THEN
        \* case a: append to the target group
        LET targetGroupKey == over.name
            moved == [moving EXCEPT !.groupKey = targetGroupKey]
            t == IndexOfGroup(oldGroups, targetGroupKey)
        IN  IF t = 0
            THEN \* t.rows throws a TypeError after moving.groupKey was written
                 [set |-> FALSE, data |-> SetGroupKey(data, rowKey, targetGroupKey)]
            ELSE [set |-> TRUE,
                  data |-> flattenAndResort(
                             [oldGroups EXCEPT ![t].rows = Append(@, moved)])]
      ELSE
        \* case b: insert before the target row, else append to the last group
        LET targetRowKey == over.name
            tg == IndexOfHolder(oldGroups, targetRowKey)
        IN  IF tg # 0
            THEN LET idx == IndexOfKey(oldGroups[tg].rows, targetRowKey)
                     moved == [moving EXCEPT !.groupKey = oldGroups[tg].groupKey]
                 IN  [set |-> TRUE,
                      data |-> flattenAndResort(
                                 [oldGroups EXCEPT ![tg].rows = InsertAt(@, idx, moved)])]
            ELSE [set |-> TRUE,
                  data |-> flattenAndResort(
                             [oldGroups EXCEPT ![Len(oldGroups)].rows = Append(@, moving)])]
  ELSE same

-----------------------------------------------------------------------------
(* part_001 *)

\* String(id) of an id of part_001
IdString(id) == id.name

reorderGroups(data, activeGroupKey, overGroupKey) ==
  LET groupHeaders == SelectSeq(data, LAMBDA item : item.groupSize # Undefined)
      oldIndex == IndexOfGroup(groupHeaders, activeGroupKey)
      newIndex == IndexOfGroup(groupHeaders, overGroupKey)
  IN
  IF oldIndex = 0 \/ newIndex = 0 \/ oldIndex = newIndex THEN data
  ELSE
    LET newGroupOrder == arrayMove(groupHeaders, oldIndex, newIndex)
        blocks == [i \in 1..Len(newGroupOrder) |->
                     [groupKey |-> newGroupOrder[i].groupKey,
                      rows |-> SortBySort(RowsOfGroup(data, newGroupOrder[i].groupKey))]]
        flat == Flatten(blocks)
    IN  [i \in 1..Len(flat) |-> [flat[i] EXCEPT !.sort = Num(i - 1)]]

onDragEndGroups(data, active, over) ==
  IF over # NoId /\ active # over
  THEN reorderGroups(data, IdString(active), IdString(over))
  ELSE data

-----------------------------------------------------------------------------
(* The components *)

Variants == {"frac", "renum", "groups"}

NoIndicator == [key |-> "", type |-> "null"]

\* the groups memo after a render with the collection data
groupsMemo(v, data) ==
  IF v = "frac" THEN MemoOf(buildGroups(sortedData(data)))
  ELSE IF v = "renum" THEN MemoOf(buildGroupsRenum(sortedData(data)))
  ELSE << >>

Init ==
  /\ variant \in Variants
  /\ dataSource = IF variant = "frac" THEN initialData ELSE initialDataZero
  /\ groups = groupsMemo(variant, dataSource)
  /\ activeId = NoId
  /\ indicatorPos = NoIndicator
  /\ moves = 0

\* onDragStart of the three components.  dnd-kit runs one drag at a time.
OnDragStart(id) ==
  /\ activeId = NoId
  /\ moves < MaxMoves
  /\ activeId' = id
  /\ UNCHANGED <<variant, dataSource, groups, indicatorPos, moves>>

\* part_000 onDragMove: the drop indicator (the auto scroll touches the DOM only)
OnDragMove(over) ==
  /\ variant = "frac"
  /\ activeId # NoId
  /\ moves < MaxTracked
  /\ indicatorPos' =
       IF over = NoId THEN NoIndicator
       ELSE IF startsWith(over, "group") THEN
         LET rows == SortBySort(RowsOfGroup(sortedData(dataSource), over.name))
         IN  IF Len(rows) > 0
             THEN [key |-> rows[Len(rows)].key, type |-> "after"]
             ELSE indicatorPos
       ELSE [key |-> over.name, type |-> "before"]
  /\ UNCHANGED <<variant, dataSource, groups, activeId, moves>>

\* part_000 onDragEnd
OnDragEndFrac(over) ==
  /\ variant = "frac"
  /\ activeId # NoId
  /\ indicatorPos' = NoIndicator
  /\ activeId' = NoId
  /\ dataSource' = onDragEndFrac(dataSource, activeId, over)
  /\ groups' = groupsMemo(variant, dataSource')
  /\ moves' = moves + 1
  /\ UNCHANGED variant

\* GroupDragTable.tsx onDragEnd
OnDragEndRenum(over) ==
  /\ variant = "renum"
  /\ activeId # NoId
  /\ activeId' = NoId
  /\ LET out == onDragEndRenum(dataSource, GroupsOf(dataSource, groups), activeId, over)
     IN  /\ dataSource' = out.data
         /\ groups' = IF out.set THEN groupsMemo(variant, out.data) ELSE groups
  /\ moves' = moves + 1
  /\ UNCHANGED <<variant, indicatorPos>>

\* part_001 onDragEnd returning on a missing over before setActiveId(null)
OnDragEndGroupsLate(over) ==
  /\ variant = "groups"
  /\ activeId # NoId
  /\ activeId' = IF over = NoId THEN activeId ELSE NoId
  /\ dataSource' = onDragEndGroups(dataSource, activeId, over)
  /\ moves' = moves + 1
  /\ UNCHANGED <<variant, groups, indicatorPos>>

\* part_001 onDragEnd
OnDragEndGroups(over) ==
  /\ variant = "groups"
  /\ activeId # NoId
  /\ activeId' = NoId
  /\ dataSource' = onDragEndGroups(dataSource, activeId, over)
  /\ moves' = moves + 1
  /\ UNCHANGED <<variant, groups, indicatorPos>>

Next ==
  \/ \E id \in Ids(variant) : OnDragStart(id)
  \/ \E over \in Ids(variant) \cup {NoId} : OnDragMove(over)
  \/ \E over \in Ids(variant) \cup {NoId} : OnDragEndFrac(over)
  \/ \E over \in Ids(variant) \cup {NoId} : OnDragEndRenum(over)
  \/ \E over \in Ids(variant) \cup {NoId} : OnDragEndGroups(over)

\* any one of the three components
Spec == Init /\ [][Next]_vars

\* the fractional component (part_000) alone
NextFrac ==
  \/ \E id \in Ids(variant) : OnDragStart(id)
  \/ \E over \in Ids(variant) \cup {NoId} : OnDragMove(over)
  \/ \E over \in Ids(variant) \cup {NoId} : OnDragEndFrac(over)

InitFrac == Init /\ variant = "frac"

SpecFrac == InitFrac /\ [][NextFrac]_vars

\* the fractional component followed from drag start to drag end only: the
\* pointer moves in between write indicatorPos, which onDragEnd does not read
NextDrop ==
  \/ \E id \in Ids(variant) : OnDragStart(id)
  \/ \E over \in Ids(variant) \cup {NoId} : OnDragEndFrac(over)

SpecDrop == InitFrac /\ [][NextDrop]_vars

\* the renumbering component (GroupDragTable.tsx) alone
NextRenum ==
  \/ \E id \in Ids(variant) : OnDragStart(id)
  \/ \E over \in Ids(variant) \cup {NoId} : OnDragEndRenum(over)

InitRenum == Init /\ variant = "renum"

SpecRenum == InitRenum /\ [][NextRenum]_vars

\* The ids the rows of GroupDragTable.tsx register with useSortable: a row
\* with a groupSize registers "group:" + its groupKey, any other row "row:" +
\* its key.  dnd-kit reports as active and over only ids that are registered.
sortableId(record) ==
  IF record.groupSize # Undefined THEN GroupId(record.groupKey) ELSE RowId(record.key)

SortableIds == {sortableId(dataSource[i]) : i \in 1..Len(dataSource)}

\* the renumbering component driven by the ids its mounted rows register
NextMounted ==
  \/ \E id \in SortableIds : OnDragStart(id)
  \/ \E over \in SortableIds \cup {NoId} : OnDragEndRenum(over)

SpecMounted == InitRenum /\ [][NextMounted]_vars

-----------------------------------------------------------------------------
(* Vocabulary of the properties *)

Range(s) == {s[i] : i \in 1..Len(s)}

KeysOf(data) == {r.sort : r \in Range(data)}

Resolves(data, id) ==
  \/ id.kind = "row" /\ \E r \in Range(data) : r.key = id.name
  \/ id.kind = "group" /\ \E r \in Range(data) : r.groupKey = id.name

Members(data, gk) == {r \in Range(data) : r.groupKey = gk}

MinKey(S) == CHOOSE k \in S : \A m \in S : RatLe(k, m)

MaxKey(S) == CHOOSE k \in S : \A m \in S : RatLe(m, k)

Between(a, x, b) == RatLt(a, x) /\ RatLt(x, b)

HasSucc(data, t) == \E k \in KeysOf(data) : RatLt(t, k)

Succ(data, t) == MinKey({k \in KeysOf(data) : RatLt(t, k)})

HasPred(data, t) == \E k \in KeysOf(data) : RatLt(k, t)

\* the predecessor key of t, or the synthetic lower bound 0
PredOrZero(data, t) ==
  IF HasPred(data, t) THEN MaxKey({k \in KeysOf(data) : RatLt(k, t)}) ELSE Num(0)

SortOf(data, k) == (CHOOSE r \in Range(data) : r.key = k).sort

GroupOf(data, k) == (CHOOSE r \in Range(data) : r.key = k).groupKey

SizeOf(data, k) == (CHOOSE r \in Range(data) : r.key = k).groupSize

\* the collection after the pending drag ends over the id over
Dropped(over) ==
  IF variant = "frac" THEN onDragEndFrac(dataSource, activeId, over)
  ELSE IF variant = "renum"
       THEN onDragEndRenum(dataSource, GroupsOf(dataSource, groups), activeId, over).data
       ELSE onDragEndGroups(dataSource, activeId, over)

Overs == Ids(variant) \cup {NoId}

Dragging(kind) == activeId.kind = kind /\ Resolves(dataSource, activeId)

SeedSorts(data) ==
  \A i \in 1..Len(initialData) : SortOf(data, initialData[i].key) = initialData[i].sort

-----------------------------------------------------------------------------
(* C1..C10 *)

\* C1: in the fractional component no two rows ever carry the same sort.
KeyUniqueness ==
  variant = "frac" =>
    \A i, j \in 1..Len(dataSource) :
      i # j => dataSource[i].sort # dataSource[j].sort

\* two drags have given two rows fractional keys
KeyUniquenessWitness ==
  /\ variant = "frac"
  /\ moves = 2
  /\ Cardinality({r \in Range(dataSource) : r.sort[2] > 1}) >= 2

\* C2 as claimed: in the fractional component the key ranges of any two
\* groups never overlap.
GroupContiguity ==
  variant = "frac" =>
    \A g, h \in GroupKeys :
      g # h =>
        LET G == {r.sort : r \in Members(dataSource, g)}
            H == {r.sort : r \in Members(dataSource, h)}
        IN  RatLt(MaxKey(G), MinKey(H)) \/ RatLt(MaxKey(H), MinKey(G))

\* C3: a row dropped on a row below it lands strictly between the target and
\* the target's successor; dropped on a row above it, strictly between the
\* target's predecessor (or 0) and the target.  From the seed keys, row 1-2
\* (key 2) dropped on row 2-1 (key 4) gets 9/2 and no other key changes.
MidpointCorrectness ==
  (variant = "frac" /\ Dragging("row")) =>
    /\ \A o \in Overs :
         (o.kind = "row" /\ o # activeId /\ Resolves(dataSource, o)) =>
           \A new \in {SortOf(Dropped(o), activeId.name)} :
             LET R == SortOf(dataSource, activeId.name)
                 T == SortOf(dataSource, o.name)
             IN  /\ (RatLt(R, T) /\ HasSucc(dataSource, T))
                      => Between(T, new, Succ(dataSource, T))
                 /\ RatLt(T, R) => Between(PredOrZero(dataSource, T), new, T)
    /\ (SeedSorts(dataSource) /\ activeId = RowId("1-2")) =>
         LET after == Dropped(RowId("2-1"))
         IN  /\ SortOf(after, "1-2") = <<9, 2>>
             /\ \A k \in RowKeys \ {"1-2"} : SortOf(after, k) = SortOf(dataSource, k)

\* row 1-2 sits at 9/2 and every other row at its seed key
MidpointCorrectnessWitness ==
  /\ variant = "frac"
  /\ moves = 1
  /\ SortOf(dataSource, "1-2") = <<9, 2>>
  /\ \A i \in 1..Len(initialData) :
       initialData[i].key # "1-2"
         => SortOf(dataSource, initialData[i].key) = initialData[i].sort

\* the position a row dropped on the row o lands in lies between two rows of
\* the group gk
LandsInside(o, gk) ==
  LET R == SortOf(dataSource, activeId.name)
      T == SortOf(dataSource, o.name)
      keys == {r.sort : r \in Members(dataSource, gk)}
  IN  /\ GroupOf(dataSource, o.name) = gk
      /\ \/ RatLt(R, T) /\ HasSucc(dataSource, T) /\ Succ(dataSource, T) \in keys
         \/ RatLt(T, R) /\ HasPred(dataSource, T) /\ PredOrZero(dataSource, T) \in keys

\* C4 as claimed: a row dropped between two rows of another group takes that
\* group's groupKey.
RowRegrouped ==
  (variant = "frac" /\ Dragging("row")) =>
    \A o \in Overs :
      (o.kind = "row" /\ o # activeId /\ Resolves(dataSource, o)) =>
        \A gk \in GroupKeys :
          (gk # GroupOf(dataSource, activeId.name) /\ LandsInside(o, gk))
            => GroupOf(Dropped(o), activeId.name) = gk

-----------------------------------------------------------------------------
(* The boundary of a group move, for the dragged group activeId over o *)

ActiveKeys == {r.sort : r \in Members(dataSource, activeId.name)}

ActiveCount == Cardinality(Members(dataSource, activeId.name))

OverFirst(o) ==
  IF o.kind = "row" THEN SortOf(dataSource, o.name)
  ELSE MinKey({r.sort : r \in Members(dataSource, o.name)})

OverLast(o) ==
  IF o.kind = "row" THEN SortOf(dataSource, o.name)
  ELSE MaxKey({r.sort : r \in Members(dataSource, o.name)})

MovesUp(o) == RatLt(OverFirst(o), MinKey(ActiveKeys))

MovesDown(o) == RatLt(MinKey(ActiveKeys), OverFirst(o))

BoundUp(o) ==
  IF MovesUp(o) THEN PredOrZero(dataSource, OverFirst(o)) ELSE OverLast(o)

BoundDown(o) ==
  IF MovesUp(o) THEN OverFirst(o)
  ELSE IF HasSucc(dataSource, OverLast(o)) THEN Succ(dataSource, OverLast(o))
       ELSE RatAdd(OverLast(o), Num(ActiveCount + 1))

\* 1 for the member with the smallest key, 2 for the next, ...
Rank(r) == 1 + Cardinality({m \in Members(dataSource, activeId.name) : RatLt(m.sort, r.sort)})

GroupTargets == {o \in Overs : o # NoId /\ o # activeId /\ Resolves(dataSource, o)}

\* C5: the i-th member of a moved group of n gets up + i * (down - up) / (n + 1).
\* From the seed keys, group-B dropped on row 1-1 gets the keys 1/3 and 2/3.
GroupFormula ==
  (variant = "frac" /\ Dragging("group")) =>
    /\ \A o \in GroupTargets :
         (MovesUp(o) \/ MovesDown(o)) =>
           \A after \in {Dropped(o)}, up \in {BoundUp(o)}, down \in {BoundDown(o)},
              n \in {ActiveCount} :
             \A m \in Members(dataSource, activeId.name) :
               SortOf(after, m.key) =
                 RatAdd(up, RatDivInt(RatMulInt(RatSub(down, up), Rank(m)), n + 1))
    /\ (SeedSorts(dataSource) /\ activeId = GroupId("group-B")) =>
         LET after == Dropped(RowId("1-1"))
         IN  SortOf(after, "2-1") = <<1, 3>> /\ SortOf(after, "2-2") = <<2, 3>>

\* group-B sits at 1/3 and 2/3, every other row at its seed key
GroupFormulaWitness ==
  /\ variant = "frac"
  /\ moves = 1
  /\ SortOf(dataSource, "2-1") = <<1, 3>>
  /\ SortOf(dataSource, "2-2") = <<2, 3>>
  /\ \A k \in {"1-1", "1-2", "1-3", "3-1"} :
       SortOf(dataSource, k) = SortOf(initialData, k)

\* C6: the new keys of a moved group lie strictly between up and down, and no
\* row of another group has a key between the smallest and the largest of them.
GroupBlock ==
  (variant = "frac" /\ Dragging("group")) =>
    \A o \in GroupTargets :
      (MovesUp(o) \/ MovesDown(o)) =>
        \A after \in {Dropped(o)}, up \in {BoundUp(o)}, down \in {BoundDown(o)} :
          \A newKeys \in {{r.sort : r \in Members(after, activeId.name)}} :
            \A lo \in {MinKey(newKeys)}, hi \in {MaxKey(newKeys)} :
              /\ \A k \in newKeys : Between(up, k, down)
              /\ \A r \in Range(after) :
                   r.groupKey # activeId.name => ~(RatLe(lo, r.sort) /\ RatLe(r.sort, hi))

\* group-A, interleaved with group-B, is being dragged; dropped on group-C it
\* becomes the block 7, 8, 9
GroupBlockWitness ==
  /\ variant = "frac"
  /\ activeId = GroupId("group-A")
  /\ \E a \in ActiveKeys :
       Between(SortOf(dataSource, "2-1"), a, SortOf(dataSource, "2-2"))
  /\ MovesDown(GroupId("group-C"))
  /\ {r.sort : r \in Members(Dropped(GroupId("group-C")), "group-A")}
       = {Num(7), Num(8), Num(9)}

\* the group an id of kind group or plain names is being dragged
DraggingGroup ==
  /\ activeId.kind \in {"group", "plain"}
  /\ Members(dataSource, activeId.name) # {}

\* C7: in every component a drop of a dragged group leaves the order of any two
\* of its members as it was.
IntraGroupOrder ==
  DraggingGroup =>
    \A o \in Overs : \A after \in {Dropped(o)} :
      \A x, y \in Members(dataSource, activeId.name) :
        RatLt(x.sort, y.sort) <=> RatLt(SortOf(after, x.key), SortOf(after, y.key))

\* part_001: group-B has been moved in front of group-A
IntraGroupOrderWitness ==
  /\ variant = "groups"
  /\ moves = 1
  /\ SortOf(dataSource, "2-1") = Num(0)
  /\ SortOf(dataSource, "2-2") = Num(1)
  /\ SortOf(dataSource, "1-1") = Num(2)

\* C8: in every component a drag end over the dragged id itself leaves the
\* collection as it is, field for field.
SameEntityNoop ==
  activeId # NoId =>
    /\ Dropped(activeId) = dataSource
    /\ variant = "renum" =>
         ~onDragEndRenum(dataSource, GroupsOf(dataSource, groups), activeId, activeId).set

\* two drag ends have left the seed collection of part_000 untouched
SameEntityNoopWitness ==
  /\ variant = "frac"
  /\ moves = 2
  /\ activeId = NoId
  /\ dataSource = initialData

\* no row and no group carries the name of the id
Unresolvable(id) ==
  /\ id # NoId
  /\ \A r \in Range(dataSource) : r.key # id.name /\ r.groupKey # id.name

\* record.groupSize || 0
Count(gs) == IF gs = Undefined THEN 0 ELSE gs

\* C9 as claimed: in part_000 and part_001 a drag end with an unresolvable
\* active or over id leaves sort, groupKey and groupSize of every row as they
\* were.
UnresolvedKeepsFields ==
  (variant # "renum" /\ activeId # NoId) =>
    \A o \in Ids(variant) :
      (o # activeId /\ (Unresolvable(activeId) \/ Unresolvable(o))) =>
        LET after == Dropped(o)
        IN  \A r \in Range(dataSource) :
              /\ SortOf(after, r.key) = r.sort
              /\ GroupOf(after, r.key) = r.groupKey
              /\ SizeOf(after, r.key) = r.groupSize

\* C9, amended: ... leaves sort and groupKey of every row as they were, and
\* its header count up to the sentinel (groupSize || 0 is as it was).
UnresolvedKeepsOrder ==
  (variant # "renum" /\ activeId # NoId) =>
    \A o \in Ids(variant) :
      (o # activeId /\ (Unresolvable(activeId) \/ Unresolvable(o))) =>
        \A after \in {Dropped(o)} :
          /\ Len(after) = Len(dataSource)
          /\ \A r \in Range(dataSource) :
               /\ SortOf(after, r.key) = r.sort
               /\ GroupOf(after, r.key) = r.groupKey
               /\ Count(SizeOf(after, r.key)) = Count(r.groupSize)

\* a stale row id is being dragged over the collection a first drag end of
\* part_000 left with its seed keys and zero sentinels
UnresolvedKeepsOrderWitness ==
  /\ variant = "frac"
  /\ moves = 1
  /\ activeId = RowId(StaleRowKey)
  /\ SeedSorts(dataSource)
  /\ SizeOf(dataSource, "1-2") = 0
  /\ SizeOf(Dropped(RowId("1-1")), "1-1") = 3

HeaderOk(data, gk) ==
  LET M == Members(data, gk)
      heads == {r \in M : r.groupSize # 0}
  IN  /\ Cardinality(heads) = 1
      /\ \A h \in heads :
           /\ h.groupSize = Cardinality(M)
           /\ \A m \in M : RatLe(h.sort, m.sort)

\* C10: what part_000 stores after a drag end that reaches recomputeGroupSizes
\* has, in every group, one row with a nonzero groupSize: the row with the
\* smallest sort, with the number of members; every other row has 0.
HeaderRecompute ==
  (variant = "frac" /\ activeId # NoId) =>
    \A o \in Ids(variant) :
      o # activeId =>
        \A after \in {Dropped(o)} : \A gk \in GroupKeys : HeaderOk(after, gk)

\* row 1-3 was dropped on row 1-1 and is now the header of group-A
HeaderRecomputeWitness ==
  /\ variant = "frac"
  /\ moves = 1
  /\ SortOf(dataSource, "1-3") = <<1, 2>>
  /\ SizeOf(dataSource, "1-3") = 3
  /\ SizeOf(dataSource, "1-1") = 0

-----------------------------------------------------------------------------
(* C11..C20 *)

\* the first key of what the id names: the key of a row, the smallest key of
\* a group
FirstKey(id) ==
  IF id.kind = "row" THEN SortOf(dataSource, id.name)
  ELSE MinKey({r.sort : r \in Members(dataSource, id.name)})

\* the drop of the dragged id on o reaches an update of computeNewSorts
Effective(o) ==
  /\ Resolves(dataSource, activeId)
  /\ Resolves(dataSource, o)
  /\ FirstKey(activeId) # FirstKey(o)

\* the keys of the rows the move is about: the dragged row, or the members of
\* the dragged group
Involved ==
  IF activeId.kind = "row" THEN {activeId.name}
  ELSE {r.key : r \in Members(dataSource, activeId.name)}

\* C11: computeNewSorts changes the sort of the moved row only (row move), of
\* exactly the members of the moved group (group move), and of no other row.
LocalUpdate ==
  (variant = "frac" /\ activeId # NoId) =>
    \A o \in Ids(variant) :
      \A sd \in {sortedData(dataSource)} : \A after \in {computeNewSorts(sd, activeId, o)} :
        LET touched == {r.key : r \in {x \in Range(sd) : SortOf(after, x.key) # x.sort}}
        IN  /\ Len(after) = Len(sd)
            /\ touched \subseteq Involved
            /\ Effective(o) => touched = Involved

\* group-A, interleaved with group-B by an earlier move, is being dragged: a
\* drop on group-C rewrites the keys of rows 1-1, 1-2 and 1-3 and no other
LocalUpdateWitness ==
  /\ variant = "frac"
  /\ moves = 1
  /\ activeId = GroupId("group-A")
  /\ ~SeedSorts(dataSource)
  /\ Effective(GroupId("group-C"))
  /\ LET after == computeNewSorts(sortedData(dataSource), activeId, GroupId("group-C"))
     IN  {k \in RowKeys : SortOf(after, k) # SortOf(dataSource, k)} = {"1-1", "1-2", "1-3"}

\* the collection part_000 stores after the pending drag ends over o, and
\* after the same request is made once more on that collection
Once(o) == onDragEndFrac(dataSource, activeId, o)

Twice(o) == onDragEndFrac(Once(o), activeId, o)

SameKeys(c, d) == \A r \in Range(c) : SortOf(d, r.key) = r.sort

\* C12 as claimed: in part_000 a move request applied twice gives the same
\* collection as applied once, for every collection and every pair of ids.
Idempotence ==
  (variant = "frac" /\ activeId # NoId) =>
    \A o \in Overs : Twice(o) = Once(o)

\* C12, amended: in part_000 a request that changes no order key is
\* idempotent; a request that changes one is not in general, since direction
\* is taken from the new keys: a row dropped on a row below it lands after the
\* target and the same request again lands it just before the target, and the
\* other way round for a row dropped on a row above it.
RepeatedMove ==
  (variant = "frac" /\ activeId # NoId) =>
    \A o \in Overs :
      \A c1 \in {Once(o)} : \A c2 \in {onDragEndFrac(c1, activeId, o)} :
        /\ SameKeys(dataSource, c1) => c2 = c1
        /\ (Dragging("row") /\ o.kind = "row" /\ o # activeId /\ Resolves(dataSource, o)) =>
             \A R \in {SortOf(dataSource, activeId.name)}, T \in {SortOf(dataSource, o.name)},
                new1 \in {SortOf(c1, activeId.name)}, new2 \in {SortOf(c2, activeId.name)} :
               /\ RatLt(R, T) =>
                    /\ RatLt(T, new1)
                    /\ Between(PredOrZero(c1, T), new2, T)
               /\ RatLt(T, R) =>
                    /\ RatLt(new1, T)
                    /\ RatLt(T, new2)
                    /\ HasSucc(c1, T) => Between(T, new2, Succ(c1, T))

\* row 1-2 is being dragged from the seed keys: a drop on row 2-1 gives it
\* the key 9/2, the same drop again the key 7/2
RepeatedMoveWitness ==
  /\ variant = "frac"
  /\ activeId = RowId("1-2")
  /\ SeedSorts(dataSource)
  /\ SortOf(Once(RowId("2-1")), "1-2") = <<9, 2>>
  /\ SortOf(Twice(RowId("2-1")), "1-2") = <<7, 2>>

\* C13: in every component the collection holds, after any sequence of drag
\* ends, each row key of the seed exactly once and no other.
RowsConserved ==
  /\ Len(dataSource) = Cardinality(RowKeys)
  /\ {dataSource[i].key : i \in 1..Len(dataSource)} = RowKeys

\* GroupDragTable.tsx after two drag ends that took rows out of group-A: the
\* group has one member left and the collection is no longer in seed order
RowsConservedWitness ==
  /\ variant = "renum"
  /\ moves = 2
  /\ activeId = NoId
  /\ Cardinality(Members(dataSource, "group-A")) = 1
  /\ [i \in 1..Len(dataSource) |-> dataSource[i].key]
       # [i \in 1..Len(initialDataZero) |-> initialDataZero[i].key]

\* C14: in GroupDragTable.tsx the stored rows carry, in array order, the
\* sorts 0, 1, ..., N-1: every drag end that replaces the collection rewrites
\* them so, hence they are always a permutation of 0..N-1.
Renumbered ==
  variant = "renum" =>
    /\ \A i \in 1..Len(dataSource) : dataSource[i].sort = Num(i - 1)
    /\ activeId # NoId =>
         \A o \in Overs :
           LET out == onDragEndRenum(dataSource, GroupsOf(dataSource, groups), activeId, o)
           IN  out.set =>
                 {out.data[i].sort : i \in 1..Len(out.data)}
                   = {Num(k) : k \in 0..(Len(dataSource) - 1)}

\* group-C has been moved in front of group-A and row 3-1 renumbered to 0
RenumberedWitness ==
  /\ variant = "renum"
  /\ moves = 1
  /\ dataSource[1].key = "3-1"
  /\ dataSource[1].sort = Num(0)
  /\ dataSource[2].key = "1-1"
  /\ dataSource[2].sort = Num(1)

\* C15 as claimed: in GroupDragTable.tsx every group has exactly one member
\* with a header count, and the count is the number of its members.
HeaderBookkeeping ==
  variant = "renum" =>
    \A r \in Range(dataSource) :
      LET M == Members(dataSource, r.groupKey)
          heads == {m \in M : Count(m.groupSize) # 0}
      IN  /\ Cardinality(heads) = 1
          /\ \A h \in heads : h.groupSize = Cardinality(M)

\* C16 as claimed: in GroupDragTable.tsx a row dropped on an over id that
\* names no row and no group leaves sort and groupKey of every row as they were.
UnresolvedTargetNoop ==
  (variant = "renum" /\ Dragging("row")) =>
    \A o \in Ids(variant) :
      Unresolvable(o) =>
        LET after == Dropped(o)
        IN  \A r \in Range(dataSource) :
              /\ SortOf(after, r.key) = r.sort
              /\ GroupOf(after, r.key) = r.groupKey

\* C17: in part_000 the direction of a move is the comparison of the first key
\* of the dragged entity with the first key of the target.  Dropped on a
\* group, a down-move puts every new key above every key of the target group,
\* an up-move puts every new key below every key of the target group, and
\* equal first keys change no key.
Classification ==
  (variant = "frac" /\ activeId # NoId /\ Resolves(dataSource, activeId)) =>
    \A o \in Ids(variant) :
      (o.kind = "group" /\ o # activeId /\ Resolves(dataSource, o)) =>
        LET after == Dropped(o)
            a == FirstKey(activeId)
            t == FirstKey(o)
            target == {r.sort : r \in Members(dataSource, o.name)}
            new == {SortOf(after, k) : k \in Involved}
        IN  /\ RatLt(a, t) => \A n \in new : \A k \in target : RatLt(k, n)
            /\ RatLt(t, a) => \A n \in new : \A k \in target : RatLt(n, k)
            /\ a = t => SameKeys(dataSource, after)

\* group-A is being dragged from the seed keys: dropped on group-B it lands
\* between the last key of group-B and the key of group-C
ClassificationWitness ==
  /\ variant = "frac"
  /\ activeId = GroupId("group-A")
  /\ SeedSorts(dataSource)
  /\ RatLt(FirstKey(activeId), FirstKey(GroupId("group-B")))
  /\ {r.sort : r \in Members(Dropped(GroupId("group-B")), "group-A")}
       = {<<21, 4>>, <<11, 2>>, <<23, 4>>}

\* the dragged entity moves down onto o, and the boundary key up of that move
\* (the key of a target row, the last key of a target group) has no successor
PastEnd(o) ==
  /\ Effective(o)
  /\ RatLt(FirstKey(activeId), FirstKey(o))
  /\ ~HasSucc(dataSource, OverLast(o))

\* the position of the row key k among the rows the move is about, from 1
RankIn(k) ==
  1 + Cardinality({j \in Involved : RatLt(SortOf(dataSource, j), SortOf(dataSource, k))})

\* C18: in part_000, when the boundary key up has no successor, a moved row
\* gets up + 1 and the members of a moved group of n get up + 1, ..., up + n in
\* their order; the moved rows are then the last rows of the collection.
InsertionPastEnd ==
  (variant = "frac" /\ activeId # NoId) =>
    \A o \in Ids(variant) :
      (o # activeId /\ PastEnd(o)) =>
        LET after == Dropped(o)
            up == OverLast(o)
        IN  /\ \A k \in Involved : SortOf(after, k) = RatAdd(up, Num(RankIn(k)))
            /\ \A r \in Range(after) :
                 r.key \notin Involved =>
                   \A k \in Involved : RatLt(r.sort, SortOf(after, k))

\* group-A has been dropped on group-C from the seed keys and sits at 7, 8, 9
InsertionPastEndWitness ==
  /\ variant = "frac"
  /\ moves = 1
  /\ SortOf(dataSource, "1-1") = Num(7)
  /\ SortOf(dataSource, "1-2") = Num(8)
  /\ SortOf(dataSource, "1-3") = Num(9)
  /\ SortOf(dataSource, "3-1") = Num(6)

\* the groups gs are in the order of their first keys, and the rows of each
\* are in ascending order of sort
Partitioned(gs) ==
  /\ \A i, j \in 1..Len(gs) :
       i < j => RatLt(gs[i].rows[1].sort, gs[j].rows[1].sort)
  /\ \A g \in 1..Len(gs) :
       \A i, j \in 1..Len(gs[g].rows) :
         i < j => RatLt(gs[g].rows[i].sort, gs[g].rows[j].sort)

\* C19 as claimed: buildGroups of part_000 returns the groups in the order of
\* their first keys, each with its rows ascending, on the sorted collection of
\* a render and on the collection recomputeGroupSizes hands it after a move.
PartitionOrdered ==
  variant = "frac" =>
    /\ Partitioned(buildGroups(sortedData(dataSource)))
    /\ activeId # NoId =>
         \A o \in Ids(variant) :
           o # activeId =>
             Partitioned(buildGroups(computeNewSorts(sortedData(dataSource), activeId, o)))

\* the row o names is where the dragged row is dropped: another row, present
RowTarget(o) == o.kind = "row" /\ o # activeId /\ Resolves(dataSource, o)

\* after the drop on o the dragged row sits immediately before the target
\* row and carries the target's groupKey
InsertedBefore(o) ==
  LET after == Dropped(o)
  IN  /\ SortOf(after, o.name) = RatAdd(SortOf(after, activeId.name), Num(1))
      /\ GroupOf(after, activeId.name) = GroupOf(dataSource, o.name)
      /\ GroupOf(after, o.name) = GroupOf(dataSource, o.name)

-----------------------------------------------------------------------------
(* C21..C23 *)

\* C21: in part_000, from the seed keys 1..N on, every sort is strictly above
\* 0, the lower bound an up-move uses when the target has no predecessor.
Positivity ==
  variant = "frac" =>
    \A i \in 1..Len(dataSource) : RatLt(Num(0), dataSource[i].sort)

\* two up-moves to the front: one row sits at 1/2 and another below it, at 1/4
PositivityWitness ==
  /\ variant = "frac"
  /\ moves = 2
  /\ \E r, q \in Range(dataSource) : r.sort = <<1, 2>> /\ q.sort = <<1, 4>>

\* the row keys of a collection in ascending order of sort
KeySeq(c) ==
  LET sd == SortBySort(c)
  IN  [i \in 1..Len(sd) |-> sd[i].key]

\* the three group-on-group moves, of the group a onto the group o of c
FracSeq(c, a, o) == KeySeq(computeNewSorts(sortedData(c), GroupId(a), GroupId(o)))

RenumSeq(c, a, o) ==
  KeySeq(onDragEndRenum(c, buildGroupsRenum(sortedData(c)), GroupId(a), GroupId(o)).data)

GroupsSeq(c, a, o) == KeySeq(reorderGroups(c, a, o))

\* in ascending order of sort the rows of each group are next to each other
Contiguous(c) ==
  LET sd == SortBySort(c)
  IN  \A i, k \in 1..Len(sd) :
        (i < k /\ sd[i].groupKey = sd[k].groupKey) =>
          \A j \in i..k : sd[j].groupKey = sd[i].groupKey

\* every group has one row marked as header with a count
OneHeader(c) ==
  \A r \in Range(c) :
    Cardinality({m \in Members(c, r.groupKey) : Count(m.groupSize) # 0}) = 1

GroupsIn(c) == {r.groupKey : r \in Range(c)}

\* C22 as claimed: on any collection whose groups are contiguous with one
\* header each, the move of a group onto another group leaves the rows in the
\* same order of sort in part_000, in GroupDragTable.tsx and in part_001.
Agreement ==
  (DraggingGroup /\ Contiguous(dataSource) /\ OneHeader(dataSource)) =>
    \A o \in GroupsIn(dataSource) \ {activeId.name} :
      LET f == FracSeq(dataSource, activeId.name, o)
      IN  /\ f = RenumSeq(dataSource, activeId.name, o)
          /\ f = GroupsSeq(dataSource, activeId.name, o)

\* the collection c as all three components take it: stored in order of sort,
\* every sort above 0 (all sorts are raised by 1 when one is not), and the
\* groupSize of a row that is not a header absent, not 0
Canon(c) ==
  LET sd == SortBySort(c)
      lift == IF \E i \in 1..Len(sd) : ~RatLt(Num(0), sd[i].sort) THEN 1 ELSE 0
  IN  [i \in 1..Len(sd) |->
         [sd[i] EXCEPT !.sort = RatAdd(@, Num(lift)),
                       !.groupSize = IF @ = 0 THEN Undefined ELSE @]]

\* C22, amended: the three moves agree on every collection that, besides
\* having contiguous groups with one header each, is stored in order of sort,
\* has only sorts above 0 and marks the rows that are not headers by an
\* absent groupSize.
AgreementCanon ==
  DraggingGroup =>
    \A c \in {Canon(dataSource)} :
      (Contiguous(c) /\ OneHeader(c)) =>
        \A o \in GroupsIn(c) \ {activeId.name} :
          \A f \in {FracSeq(c, activeId.name, o)} :
            /\ f = RenumSeq(c, activeId.name, o)
            /\ f = GroupsSeq(c, activeId.name, o)
            /\ Len(f) = Len(c)

\* part_000 after group-B was moved to the front: the collection is stored in
\* the old group order with 0 on the rows that are not headers; group-C is
\* being dragged, and dropped on group-B it comes first in all three
AgreementCanonWitness ==
  /\ variant = "frac"
  /\ moves = 1
  /\ activeId = GroupId("group-C")
  /\ SortOf(dataSource, "2-1") = <<1, 3>>
  /\ Canon(dataSource) # dataSource
  /\ Contiguous(Canon(dataSource))
  /\ OneHeader(Canon(dataSource))
  /\ GroupsSeq(Canon(dataSource), "group-C", "group-B")
       = <<"3-1", "2-1", "2-2", "1-1", "1-2", "1-3">>

\* a step that is a drag end: the only steps that count a finished gesture
DragEndStep == moves' = moves + 1

\* a step that is a drag start: activeId takes an id and nothing else changes
DragStartStep ==
  /\ activeId' # NoId
  /\ UNCHANGED <<variant, dataSource, groups, indicatorPos, moves>>

\* C23: in every component activeId leaves null only by a drag start and is
\* kept by every step until the next drag end; every drag end sets it to null
\* and leaves no drop indicator, whatever the over id is and whether or not
\* the collection changes.
SessionState ==
  [][ /\ DragEndStep => (activeId' = NoId /\ indicatorPos' = NoIndicator)
      /\ (activeId = NoId /\ activeId' # NoId) => DragStartStep
      /\ (activeId # NoId /\ activeId' # activeId) => DragEndStep ]_vars

\* part_000 after a drag end that applied a move: no active id, no indicator
SessionStateWitness ==
  /\ variant = "frac"
  /\ moves = 1
  /\ activeId = NoId
  /\ indicatorPos = NoIndicator
  /\ ~SeedSorts(dataSource)

====
